---- MODULE Spec2Model ----
(***************************************************************************)
(* libcucul attribute management and colourspace conversions               *)
(* (src/unnamed/part_000), modelled as a state machine over one canvas.    *)
(*                                                                         *)
(* An attribute argument is a C "unsigned long int" (64 bits on LP64); a   *)
(* stored attribute is a uint32_t.  TLC's integers are 32-bit signed, so   *)
(* an attribute value is kept as a record of 16-bit words                  *)
(*     [x |-> bits 32 and above, h |-> bits 16..31, l |-> bits 0..15]      *)
(* and every C operator on it is computed word by word.                    *)
(***************************************************************************)
EXTENDS Integers, Sequences, FiniteSets, TLC

VARIABLES width, height, chars, attrs, curattr, cursor_x, cursor_y,
          drv, resize, mouse, events, hist, calls, ret, last, arg,
          game, tunnel, create_i

\* The canvas buffers and current attribute, the canvas cursor, and the
\* display: the driver's private data, the resize request and mouse position
\* of the display, the events the display has queued, and what the host has
\* notified so far (a history kept for the properties).  calls counts the
\* calls made where a specification bounds them.
cv == <<width, height, chars, attrs, curattr>>
cursor == <<cursor_x, cursor_y>>
kk == <<drv, resize, mouse, events, hist>>
\* The game and the tunnel of ttyvaders (src/src/tunnel.c), and the index of
\* the loop of create_tunnel.
tt == <<game, tunnel, create_i>>
vars == <<width, height, chars, attrs, curattr, cursor_x, cursor_y,
          drv, resize, mouse, events, hist, calls, ret, last, arg,
          game, tunnel, create_i>>

(***************************************************************************)
(* Bounds of the model.                                                    *)
(***************************************************************************)
\* Width and height of the canvases the canvas specification starts from.
MaxWidth == 2
MaxHeight == 2

(***************************************************************************)
(* Program constants.                                                      *)
(***************************************************************************)
CUCUL_BLACK == 0
CUCUL_LIGHTGRAY == 7
CUCUL_DEFAULT == 16
CUCUL_TRANSPARENT == 32
CUCUL_MAGIC_FULLWIDTH == 1048574

(***************************************************************************)
(* Bit operators of C on naturals below 2^16.                              *)
(***************************************************************************)
RECURSIVE BitAnd(_, _)
BitAnd(a, b) ==
    IF a = 0 \/ b = 0 THEN 0
    ELSE (a % 2) * (b % 2) + 2 * BitAnd(a \div 2, b \div 2)

RECURSIVE BitOr(_, _)
BitOr(a, b) ==
    IF a = 0 THEN b
    ELSE IF b = 0 THEN a
    ELSE (IF a % 2 = 1 \/ b % 2 = 1 THEN 1 ELSE 0) + 2 * BitOr(a \div 2, b \div 2)

RECURSIVE BitXor(_, _)
BitXor(a, b) ==
    IF a = 0 THEN b
    ELSE IF b = 0 THEN a
    ELSE ((a + b) % 2) + 2 * BitXor(a \div 2, b \div 2)

Shr(a, k) == a \div (2 ^ k)

(***************************************************************************)
(* Attribute values, word by word.                                         *)
(***************************************************************************)
\* The 32-bit value h * 2^16 + l.
U32(h, l) == [x |-> 0, h |-> h, l |-> l]

\* attr < 0x00000010
AttrBelow16(attr) == attr.x = 0 /\ attr.h = 0 /\ attr.l < \h10

\* sizeof(unsigned long int) > sizeof(uint32_t) && attr > 0xffffffff  (LP64)
AttrAbove32(attr) == attr.x > 0

\* (uint32_t)a & (uint32_t)b
And32(a, b) == [x |-> 0, h |-> BitAnd(a.h, b.h), l |-> BitAnd(a.l, b.l)]

\* (uint32_t)a | (uint32_t)b
Or32(a, b) == [x |-> 0, h |-> BitOr(a.h, b.h), l |-> BitOr(a.l, b.l)]

\* (uint32_t)v << k, for a value v below 2^16 and k = 4 or k >= 16
Shl32(v, k) ==
    IF k >= 16 THEN U32((v * 2 ^ (k - 16)) % 65536, 0)
    ELSE U32((v * 2 ^ k) \div 65536, (v * 2 ^ k) % 65536)

\* (attr >> 4) & 0x3fff on a uint32_t: bits 4..17
FgField(attr) == (attr.h % 4) * 4096 + Shr(attr.l, 4)

\* attr >> 18 on a uint32_t: bits 18..31
BgField(attr) == Shr(attr.h, 2)

\* The attribute with the given 14-bit fields and style nibble.
MkAttr(bg, fg, st) == U32(bg * 4 + fg \div 4096, (fg % 4096) * 16 + st)

(***************************************************************************)
(* The canvas: cells are indexed 0 .. width*height-1, row-major.           *)
(***************************************************************************)
InBounds(x, y) == ~(x < 0 \/ x >= width \/ y < 0 \/ y >= height)

\* unsigned long int cucul_get_attr(cv, x, y)
cucul_get_attr(x, y) ==
    IF x < 0 \/ x >= width \/ y < 0 \/ y >= height
    THEN curattr
    ELSE attrs[x + y * width]

\* cucul_set_attr without the style merge: a style-only value replaces the
\* colour bits too.
cucul_set_attr_nomerge(attr) ==
    IF AttrAbove32(attr)
    THEN /\ ret' = -1
         /\ UNCHANGED cv
    ELSE /\ curattr' = attr
         /\ ret' = 0
         /\ UNCHANGED <<width, height, chars, attrs>>

\* int cucul_set_attr(cv, attr)
cucul_set_attr(attr) ==
    IF AttrAbove32(attr)
    THEN /\ ret' = -1
         /\ UNCHANGED cv
    ELSE /\ curattr' = IF AttrBelow16(attr)
                       THEN Or32(And32(curattr, U32(\hffff, \hfff0)), attr)
                       ELSE attr
         /\ ret' = 0
         /\ UNCHANGED <<width, height, chars, attrs>>

\* cucul_putattr reporting an error for coordinates outside the canvas.
cucul_putattr_ooberr(x, y, attr) ==
    IF AttrAbove32(attr) \/ x < 0 \/ x >= width \/ y < 0 \/ y >= height
    THEN /\ ret' = -1
         /\ UNCHANGED cv
    ELSE LET i == x + y * width
             new == IF AttrBelow16(attrs[i])
                    THEN Or32(And32(curattr, U32(\hffff, \hfff0)), attrs[i])
                    ELSE attrs[i]
             a1 == [attrs EXCEPT ![i] = new]
         IN  /\ attrs' = IF x # 0 /\ chars[i] = CUCUL_MAGIC_FULLWIDTH
                         THEN [a1 EXCEPT ![i - 1] = new]
                         ELSE IF x + 1 < width /\ chars[i + 1] = CUCUL_MAGIC_FULLWIDTH
                         THEN [a1 EXCEPT ![i + 1] = new]
                         ELSE a1
             /\ ret' = 0
             /\ UNCHANGED <<width, height, chars, curattr>>

\* cucul_putattr that forgets the right half when aimed at the left half of a pair.
cucul_putattr_lefthalf(x, y, attr) ==
    IF AttrAbove32(attr)
    THEN /\ ret' = -1
         /\ UNCHANGED cv
    ELSE IF x < 0 \/ x >= width \/ y < 0 \/ y >= height
    THEN /\ ret' = 0
         /\ UNCHANGED cv
    ELSE LET i == x + y * width
             new == IF AttrBelow16(attrs[i])
                    THEN Or32(And32(curattr, U32(\hffff, \hfff0)), attrs[i])
                    ELSE attrs[i]
             a1 == [attrs EXCEPT ![i] = new]
         IN  /\ attrs' = IF x # 0 /\ chars[i] = CUCUL_MAGIC_FULLWIDTH
                         THEN [a1 EXCEPT ![i - 1] = new]
                         ELSE a1
             /\ ret' = 0
             /\ UNCHANGED <<width, height, chars, curattr>>

\* int cucul_putattr(cv, x, y, attr)
cucul_putattr(x, y, attr) ==
    IF AttrAbove32(attr)
    THEN /\ ret' = -1
         /\ UNCHANGED cv
    ELSE IF x < 0 \/ x >= width \/ y < 0 \/ y >= height
    THEN /\ ret' = 0
         /\ UNCHANGED cv
    ELSE LET i == x + y * width
             new == IF AttrBelow16(attrs[i])
                    THEN Or32(And32(curattr, U32(\hffff, \hfff0)), attrs[i])
                    ELSE attrs[i]
             a1 == [attrs EXCEPT ![i] = new]
         IN  /\ attrs' = IF x # 0 /\ chars[i] = CUCUL_MAGIC_FULLWIDTH
                         THEN [a1 EXCEPT ![i - 1] = new]
                         ELSE IF x + 1 < width /\ chars[i + 1] = CUCUL_MAGIC_FULLWIDTH
                         THEN [a1 EXCEPT ![i + 1] = new]
                         ELSE a1
             /\ ret' = 0
             /\ UNCHANGED <<width, height, chars, curattr>>

\* cucul_set_color_ansi rejecting only when both indices are out of range.
cucul_set_color_ansi_and(fg, bg) ==
    IF fg > \h20 /\ bg > \h20
    THEN /\ ret' = -1
         /\ UNCHANGED cv
    ELSE LET attr == Or32(Shl32(BitOr(bg, \h40), 18), Shl32(BitOr(fg, \h40), 4))
         IN  /\ curattr' = Or32(And32(curattr, U32(0, \h000f)), attr)
             /\ ret' = 0
             /\ UNCHANGED <<width, height, chars, attrs>>

\* int cucul_set_color_ansi(cv, fg, bg)
cucul_set_color_ansi(fg, bg) ==
    IF fg > \h20 \/ bg > \h20
    THEN /\ ret' = -1
         /\ UNCHANGED cv
    ELSE LET attr == Or32(Shl32(BitOr(bg, \h40), 18), Shl32(BitOr(fg, \h40), 4))
         IN  /\ curattr' = Or32(And32(curattr, U32(0, \h000f)), attr)
             /\ ret' = 0
             /\ UNCHANGED <<width, height, chars, attrs>>

\* fg = ((fg >> 1) & 0x7ff) | ((fg >> 13) << 11)
Argb16To14(c) == BitOr(Shr(c, 1) % \h800, Shr(c, 13) * \h800)

\* cucul_set_color_argb that or's the new colour bits onto the old ones.
cucul_set_color_argb_keep(fg, bg) ==
    IF fg > \hffff \/ bg > \hffff
    THEN /\ ret' = -1
         /\ UNCHANGED cv
    ELSE LET fg1 == IF fg < \h100 THEN fg + \h100 ELSE fg
             bg1 == IF bg < \h100 THEN bg + \h100 ELSE bg
             attr == Or32(Shl32(Argb16To14(bg1), 18), Shl32(Argb16To14(fg1), 4))
         IN  /\ curattr' = Or32(curattr, attr)
             /\ ret' = 0
             /\ UNCHANGED <<width, height, chars, attrs>>

\* int cucul_set_color_argb(cv, fg, bg)
cucul_set_color_argb(fg, bg) ==
    IF fg > \hffff \/ bg > \hffff
    THEN /\ ret' = -1
         /\ UNCHANGED cv
    ELSE LET fg1 == IF fg < \h100 THEN fg + \h100 ELSE fg
             bg1 == IF bg < \h100 THEN bg + \h100 ELSE bg
             attr == Or32(Shl32(Argb16To14(bg1), 18), Shl32(Argb16To14(fg1), 4))
         IN  /\ curattr' = Or32(And32(curattr, U32(0, \h000f)), attr)
             /\ ret' = 0
             /\ UNCHANGED <<width, height, chars, attrs>>

(***************************************************************************)
(* Canvases the canvas specification starts from.  Code points are kept    *)
(* well formed: a fullwidth glyph is followed, in its row, by the          *)
(* continuation marker CUCUL_MAGIC_FULLWIDTH, and the two halves of a pair *)
(* hold the same attribute.                                                *)
(***************************************************************************)
\* Every well-formed row of w cells: blanks (U+0020) and fullwidth glyphs
\* (U+3042 as the sample) each followed by the continuation marker.
RECURSIVE Rows(_)
Rows(w) ==
    IF w = 0 THEN {<<>>}
    ELSE {<<\h0020>> \o r : r \in Rows(w - 1)}
         \cup (IF w >= 2
               THEN {<<\h3042, CUCUL_MAGIC_FULLWIDTH>> \o r : r \in Rows(w - 2)}
               ELSE {})

\* Row r holds the cells of t, every other row is blank.
CharsOf(w, h, r, t) ==
    [i \in 0 .. (w * h - 1) |-> IF i \div w = r THEN t[(i % w) + 1] ELSE \h0020]

\* The cells of the glyph that covers cell q: q alone, or both halves of its pair.
UnitOf(w, ch, q) ==
    {q}
    \cup (IF q % w # 0 /\ ch[q] = CUCUL_MAGIC_FULLWIDTH THEN {q - 1} ELSE {})
    \cup (IF (q % w) + 1 < w /\ ch[q + 1] = CUCUL_MAGIC_FULLWIDTH THEN {q + 1} ELSE {})

\* A cell attribute that carries style flags only, and one that carries colours.
StyleOnlyAttr == U32(0, \h0003)
ColourAttr == MkAttr(\h40, \h47, 1)
\* DEFAULT foreground on TRANSPARENT background, no style.
FreshAttr == MkAttr(\h60, \h50, 0)

\* Arguments the canvas specification draws from.
AttrArgs == {U32(0, \h0005), U32(0, \h0010), U32(\hffff, \hffff),
             [x |-> 1, h |-> 0, l |-> 0]}
\* cucul_set_attr is also given the largest style-only value.
SetAttrArgs == AttrArgs \cup {U32(0, \h000f)}
\* Coordinates: every cell, one position beyond each edge, and two corners
\* beyond both.
CoordArgs ==
    {<<x, y>> : x \in 0 .. (width - 1), y \in 0 .. (height - 1)}
    \cup {<<-1, 0>>, <<width, 0>>, <<0, -1>>, <<0, height>>, <<-1, -1>>, <<width, height>>}
AnsiArgs == {<<9, 1>>, <<\h21, 1>>, <<9, \h21>>}
ArgbArgs == {<<\hf088, \h00ff>>, <<\h10000, 0>>, <<0, \h10000>>}

\* No display is attached to the canvas.
NoDisplay ==
    /\ drv = [p |-> "null"]
    /\ resize = [w |-> 0, h |-> 0, resized |-> 0]
    /\ mouse = [x |-> 0, y |-> 0]
    /\ events = <<>>
    /\ hist = [reshapes |-> 0]

\* No game is running.
NoTunnel ==
    /\ game = [w |-> 0, h |-> 0]
    /\ tunnel = [p |-> "null"]
    /\ create_i = 0

Init ==
    /\ width = MaxWidth
    /\ height = MaxHeight
    /\ \E r \in 0 .. (MaxHeight - 1), t \in Rows(MaxWidth) :
           chars = CharsOf(MaxWidth, MaxHeight, r, t)
    /\ \E q \in -1 .. (MaxWidth * MaxHeight - 1) :
           attrs = [i \in 0 .. (MaxWidth * MaxHeight - 1) |->
                       IF q >= 0 /\ i \in UnitOf(MaxWidth, chars, q)
                       THEN StyleOnlyAttr ELSE ColourAttr]
    /\ curattr = FreshAttr
    /\ cursor_x = 0
    /\ cursor_y = 0
    /\ NoDisplay
    /\ calls = 0
    /\ ret = 0
    /\ last = [op |-> "init"]
    /\ arg = [k |-> "none"]
    /\ NoTunnel

GetAttr ==
    \E c \in CoordArgs :
        /\ ret' = cucul_get_attr(c[1], c[2])
        /\ last' = [op |-> "get_attr", x |-> c[1], y |-> c[2]]
        /\ UNCHANGED <<cv, arg, cursor, kk, calls, tt>>

SetAttr ==
    \E attr \in SetAttrArgs :
        /\ cucul_set_attr(attr)
        /\ last' = [op |-> "set_attr", attr |-> attr]
        /\ UNCHANGED <<arg, cursor, kk, calls, tt>>

PutAttr ==
    \E c \in CoordArgs, attr \in AttrArgs :
        /\ cucul_putattr(c[1], c[2], attr)
        /\ last' = [op |-> "putattr", x |-> c[1], y |-> c[2], attr |-> attr]
        /\ UNCHANGED <<arg, cursor, kk, calls, tt>>

SetColorAnsi ==
    \E c \in AnsiArgs :
        /\ cucul_set_color_ansi(c[1], c[2])
        /\ last' = [op |-> "set_color_ansi", fg |-> c[1], bg |-> c[2]]
        /\ UNCHANGED <<arg, cursor, kk, calls, tt>>

SetColorArgb ==
    \E c \in ArgbArgs :
        /\ cucul_set_color_argb(c[1], c[2])
        /\ last' = [op |-> "set_color_argb", fg |-> c[1], bg |-> c[2]]
        /\ UNCHANGED <<arg, cursor, kk, calls, tt>>

Next == GetAttr \/ SetAttr \/ PutAttr \/ SetColorAnsi \/ SetColorArgb

Spec == Init /\ [][Next]_vars

(***************************************************************************)
(* Colourspace conversions.                                                *)
(***************************************************************************)
\* static const uint16_t ansitab14[16]
ansitab14 ==
    [i \in 0 .. 15 |->
        <<\h3800, \h3805, \h3850, \h3855, \h3d00, \h3d05, \h3d28, \h3d55,
          \h3aaa, \h3aaf, \h3afa, \h3aff, \h3faa, \h3faf, \h3ffa, \h3fff>>[i + 1]]

\* The body of the for loop of nearest_ansi: the distance d of palette entry i.
AnsiDist(argb14, i) ==
    LET a1 == Shr(ansitab14[i], 7) % 16
        b1 == Shr(argb14, 7) % 16
        a2 == Shr(ansitab14[i], 3) % 16
        b2 == Shr(argb14, 3) % 16
        a3 == (ansitab14[i] * 2) % 16
        b3 == (argb14 * 2) % 16
    IN  (a1 - b1) * (a1 - b1) + (a2 - b2) * (a2 - b2) + (a3 - b3) * (a3 - b3)

\* The for loop of nearest_ansi with "d <= dist": the last of equal distances wins.
RECURSIVE NearestLoop_lasttie(_, _, _, _)
NearestLoop_lasttie(argb14, i, best, dist) ==
    IF i >= 16 THEN best
    ELSE LET d == AnsiDist(argb14, i)
         IN  IF d <= dist
             THEN NearestLoop_lasttie(argb14, i + 1, i, d)
             ELSE NearestLoop_lasttie(argb14, i + 1, best, dist)

\* for(i = 0; i < 16; i++) { ... if(d < dist) { dist = d; best = i; } }
RECURSIVE NearestLoop(_, _, _, _)
NearestLoop(argb14, i, best, dist) ==
    IF i >= 16 THEN best
    ELSE LET d == AnsiDist(argb14, i)
         IN  IF d < dist
             THEN NearestLoop(argb14, i + 1, i, d)
             ELSE NearestLoop(argb14, i + 1, best, dist)

\* 0x10 | 0x40, CUCUL_DEFAULT | 0x40 and CUCUL_TRANSPARENT | 0x40
PaletteEnd == BitOr(\h10, \h40)
DefaultCode == BitOr(CUCUL_DEFAULT, \h40)
TransparentCode == BitOr(CUCUL_TRANSPARENT, \h40)

\* nearest_ansi without the test for the two sentinel encodings.
nearest_ansi_nosentinel(argb14) ==
    IF argb14 < PaletteEnd
    THEN BitXor(argb14, \h40) % 256
    ELSE IF argb14 < \h0fff
    THEN CUCUL_TRANSPARENT
    ELSE NearestLoop(argb14, 0, CUCUL_DEFAULT, \h3fff)

\* static uint8_t nearest_ansi(uint16_t argb14)
nearest_ansi(argb14) ==
    IF argb14 < PaletteEnd
    THEN BitXor(argb14, \h40) % 256
    ELSE IF argb14 = DefaultCode \/ argb14 = TransparentCode
    THEN BitXor(argb14, \h40) % 256
    ELSE IF argb14 < \h0fff
    THEN CUCUL_TRANSPARENT
    ELSE NearestLoop(argb14, 0, CUCUL_DEFAULT, \h3fff)

\* unsigned char cucul_attr_to_ansi_fg(unsigned long int attr):
\* ((uint16_t)attr >> 4) & 0x3fff, the cast keeping bits 0..15 only.
cucul_attr_to_ansi_fg(attr) == nearest_ansi(BitAnd(Shr(attr.l, 4), \h3fff))

\* unsigned char cucul_attr_to_ansi_bg(unsigned long int attr):
\* attr >> 18 converted to the uint16_t parameter.
cucul_attr_to_ansi_bg(attr) == nearest_ansi((attr.x * 16384 + Shr(attr.h, 2)) % 65536)

\* uint8_t _cucul_attr_to_ansi8(uint32_t attr)
cucul_attr_to_ansi8(attr) ==
    LET fg0 == nearest_ansi(FgField(attr))
        bg0 == nearest_ansi(BgField(attr))
        fg == IF fg0 = CUCUL_DEFAULT \/ fg0 = CUCUL_TRANSPARENT THEN CUCUL_LIGHTGRAY ELSE fg0
        bg == IF bg0 = CUCUL_DEFAULT \/ bg0 = CUCUL_TRANSPARENT THEN CUCUL_BLACK ELSE bg0
    IN  BitOr(fg, bg * 16) % 256

\* static const uint16_t ansitab16[16]
ansitab16 ==
    [i \in 0 .. 15 |->
        <<\hf000, \hf00a, \hf0a0, \hf0aa, \hfa00, \hfa0a, \hfa50, \hfaaa,
          \hf555, \hf55f, \hf5f5, \hf5ff, \hff55, \hff5f, \hfff5, \hffff>>[i + 1]]

\* What a read of ansitab16 beyond its 16 entries may yield.  The read is
\* undefined: the build decides (gcc -O0 and -O2 on x86-64 yield 0xef8c and
\* 0x0170 for index 0x40).  Any uint16_t is possible; these are sampled.
OutOfTable == {\h0000, \h0170, \hef8c, \hffff}

\* The values the expression ansitab16[i] may yield.
ansitab16_at(i) == IF i < 16 THEN {ansitab16[i]} ELSE OutOfTable

\* The 12-bit colour of a 14-bit field: the body shared by
\* _cucul_attr_to_rgb12fg and _cucul_attr_to_rgb12bg, "sentinel" being the
\* palette index used for CUCUL_DEFAULT and CUCUL_TRANSPARENT.  A set, for
\* the reads beyond the table.
Rgb12Of(field, sentinel) ==
    IF field < PaletteEnd
    THEN {v % \h1000 : v \in ansitab16_at(BitXor(field, \h40))}
    ELSE IF field = DefaultCode
    THEN {ansitab16[sentinel] % \h1000}
    ELSE IF field = TransparentCode
    THEN {ansitab16[sentinel] % \h1000}
    ELSE {(field * 2) % \h1000}

\* uint16_t _cucul_attr_to_rgb12fg(uint32_t attr)
cucul_attr_to_rgb12fg(attr) == Rgb12Of(FgField(attr), CUCUL_LIGHTGRAY)

\* uint16_t _cucul_attr_to_rgb12bg(uint32_t attr)
cucul_attr_to_rgb12bg(attr) == Rgb12Of(BgField(attr), CUCUL_BLACK)

\* The 16-bit ARGB value of a 14-bit field: the branching _cucul_attr_to_argb4
\* applies to bg and then to fg, "sentinel" being the palette index used for
\* CUCUL_DEFAULT.  A set, for the reads beyond the table.
Argb16Of(field, sentinel) ==
    IF field < PaletteEnd
    THEN ansitab16_at(BitXor(field, \h40))
    ELSE IF field = DefaultCode
    THEN {ansitab16[sentinel]}
    ELSE IF field = TransparentCode
    THEN {\h0fff}
    ELSE {BitOr(BitAnd(field * 4, \hf000), BitAnd(field * 2, \h0fff))}

\* argb[0] = c >> 12; argb[1] = (c >> 8) & 0xf; argb[2] = (c >> 4) & 0xf;
\* argb[3] = c & 0xf
Nibbles(c) == <<Shr(c, 12), BitAnd(Shr(c, 8), \hf), BitAnd(Shr(c, 4), \hf), BitAnd(c, \hf)>>

\* void _cucul_attr_to_argb4(uint32_t attr, uint8_t argb[8]): the arrays the
\* call may leave in argb, argb[i] being element i + 1.
cucul_attr_to_argb4(attr) ==
    {Nibbles(bg) \o Nibbles(fg) :
        bg \in Argb16Of(BgField(attr), CUCUL_BLACK),
        fg \in Argb16Of(FgField(attr), CUCUL_LIGHTGRAY)}

\* #define RGB12TO24(i)
RGB12TO24(i) ==
    BitOr(BitOr(Shr(BitAnd(i, \hf00), 8) * \h110000,
                Shr(BitAnd(i, \h0f0), 4) * \h001100),
          BitAnd(i, \h00f) * \h000011)

\* uint32_t _cucul_attr_to_rgb24fg(uint32_t attr)
cucul_attr_to_rgb24fg(attr) == {RGB12TO24(c) : c \in cucul_attr_to_rgb12fg(attr)}

\* uint32_t _cucul_attr_to_rgb24bg(uint32_t attr)
cucul_attr_to_rgb24bg(attr) == {RGB12TO24(c) : c \in cucul_attr_to_rgb12bg(attr)}

\* The subscripts of ansitab16 the RGB conversions evaluate for a 14-bit
\* field: fg ^ 0x40 in the palette branch, the sentinel's palette index in
\* the CUCUL_DEFAULT branch and in the CUCUL_TRANSPARENT branch.
Rgb12Lookups(field, sentinel) ==
    IF field < PaletteEnd THEN {BitXor(field, \h40)}
    ELSE IF field = DefaultCode \/ field = TransparentCode THEN {sentinel}
    ELSE {}

\* The subscripts of ansitab16 _cucul_attr_to_argb4 evaluates for a 14-bit
\* field: its CUCUL_TRANSPARENT branch reads no table.
Argb16Lookups(field, sentinel) ==
    IF field < PaletteEnd THEN {BitXor(field, \h40)}
    ELSE IF field = DefaultCode THEN {sentinel}
    ELSE {}

(***************************************************************************)
(* The conversions as a state machine: Init draws the argument of the      *)
(* call, the actions apply one function to it.                             *)
(***************************************************************************)
\* Arguments of the calls: every pair of ANSI indices up to one past the last
\* valid index; every value of a 14-bit field; 32-bit attributes with every
\* foreground field, every background field, and every field value in both at
\* once, the style nibble varying along.
AnsiIndexes == 0 .. \h21
FieldValues == 0 .. \h3fff
\* 16-bit ARGB values given to the colour setter: the short forms below 0x100,
\* every colour at alpha 0 and alpha 1, and the highest values.
ArgbValues == (0 .. \h1fff) \cup (\hff00 .. \hffff)

InitCodec ==
    /\ width = 1
    /\ height = 1
    /\ chars = [i \in {0} |-> \h0020]
    /\ attrs = [i \in {0} |-> FreshAttr]
    /\ cursor_x = 0
    /\ cursor_y = 0
    /\ NoDisplay
    /\ calls = 0
    /\ ret = 0
    /\ last = [op |-> "init"]
    /\ NoTunnel
    /\ \/ \E f \in AnsiIndexes, b \in AnsiIndexes, st \in 0 .. 15 :
             /\ arg = [k |-> "ansi", fg |-> f, bg |-> b]
             /\ curattr = MkAttr(\h60, \h50, st)
       \/ \E v \in FieldValues :
             /\ arg = [k |-> "field", v |-> v]
             /\ curattr = FreshAttr
       \/ \E v \in FieldValues :
             /\ \/ arg = [k |-> "attr", attr |-> MkAttr(\h0050, v, v % 16)]
                \/ arg = [k |-> "attr", attr |-> MkAttr(v, \h0050, v % 16)]
                \/ arg = [k |-> "attr", attr |-> MkAttr(v, v, v % 16)]
             /\ curattr = FreshAttr
       \/ \E c \in ArgbValues :
             /\ arg = [k |-> "argb", fg |-> c, bg |-> c]
             /\ curattr = FreshAttr

CallSetColorAnsi ==
    /\ arg.k = "ansi"
    /\ cucul_set_color_ansi(arg.fg, arg.bg)
    /\ last' = [op |-> "set_color_ansi", fg |-> arg.fg, bg |-> arg.bg]
    /\ UNCHANGED <<arg, cursor, kk, calls, tt>>

\* The attribute converted: the call's argument, or the canvas's current
\* attribute (cucul_get_attr(cv, -1, -1)) around a colour setter.
AttrOperands ==
    IF arg.k = "attr" THEN {arg.attr}
    ELSE IF arg.k = "ansi" THEN {cucul_get_attr(-1, -1)}
    ELSE {}

CallAttrToAnsiFg ==
    \E a \in AttrOperands :
        /\ ret' = cucul_attr_to_ansi_fg(a)
        /\ last' = [op |-> "attr_to_ansi_fg", attr |-> a]
        /\ UNCHANGED <<cv, arg, cursor, kk, calls, tt>>

CallAttrToAnsiBg ==
    \E a \in AttrOperands :
        /\ ret' = cucul_attr_to_ansi_bg(a)
        /\ last' = [op |-> "attr_to_ansi_bg", attr |-> a]
        /\ UNCHANGED <<cv, arg, cursor, kk, calls, tt>>

CallAttrToAnsi8 ==
    \E a \in (IF arg.k = "attr" THEN {arg.attr} ELSE {}) :
        /\ ret' = cucul_attr_to_ansi8(a)
        /\ last' = [op |-> "attr_to_ansi8", attr |-> a]
        /\ UNCHANGED <<cv, arg, cursor, kk, calls, tt>>

CallNearestAnsi ==
    /\ arg.k = "field"
    /\ ret' = nearest_ansi(arg.v)
    /\ last' = [op |-> "nearest_ansi", v |-> arg.v]
    /\ UNCHANGED <<cv, arg, cursor, kk, calls, tt>>

CallAttrToRgb12Fg ==
    \E a \in (IF arg.k = "attr" THEN {arg.attr} ELSE {}) :
        \E r \in cucul_attr_to_rgb12fg(a) :
            /\ ret' = r
            /\ last' = [op |-> "attr_to_rgb12fg", attr |-> a]
            /\ UNCHANGED <<cv, arg, cursor, kk, calls, tt>>

CallAttrToRgb12Bg ==
    \E a \in (IF arg.k = "attr" THEN {arg.attr} ELSE {}) :
        \E r \in cucul_attr_to_rgb12bg(a) :
            /\ ret' = r
            /\ last' = [op |-> "attr_to_rgb12bg", attr |-> a]
            /\ UNCHANGED <<cv, arg, cursor, kk, calls, tt>>

CallAttrToArgb4 ==
    \E a \in (IF arg.k = "attr" THEN {arg.attr} ELSE {}) :
        \E r \in cucul_attr_to_argb4(a) :
            /\ ret' = r
            /\ last' = [op |-> "attr_to_argb4", attr |-> a]
            /\ UNCHANGED <<cv, arg, cursor, kk, calls, tt>>

CallAttrToRgb24Fg ==
    \E a \in (IF arg.k = "attr" THEN {arg.attr} ELSE {}) :
        \E r \in cucul_attr_to_rgb24fg(a) :
            /\ ret' = r
            /\ last' = [op |-> "attr_to_rgb24fg", attr |-> a]
            /\ UNCHANGED <<cv, arg, cursor, kk, calls, tt>>

CallAttrToRgb24Bg ==
    \E a \in (IF arg.k = "attr" THEN {arg.attr} ELSE {}) :
        \E r \in cucul_attr_to_rgb24bg(a) :
            /\ ret' = r
            /\ last' = [op |-> "attr_to_rgb24bg", attr |-> a]
            /\ UNCHANGED <<cv, arg, cursor, kk, calls, tt>>

CallSetColorArgb ==
    /\ arg.k = "argb"
    /\ cucul_set_color_argb(arg.fg, arg.bg)
    /\ last' = [op |-> "set_color_argb", fg |-> arg.fg, bg |-> arg.bg]
    /\ UNCHANGED <<arg, cursor, kk, calls, tt>>

NextCodec ==
    \/ CallSetColorAnsi
    \/ CallAttrToAnsiFg
    \/ CallAttrToAnsiBg
    \/ CallAttrToAnsi8
    \/ CallNearestAnsi
    \/ CallAttrToRgb12Fg
    \/ CallAttrToRgb12Bg
    \/ CallAttrToArgb4
    \/ CallAttrToRgb24Fg
    \/ CallAttrToRgb24Bg
    \/ CallSetColorArgb

SpecCodec == InitCodec /\ [][NextCodec]_vars

(***************************************************************************)
(* Character cells and canvas size.  The C code of these operations is not *)
(* part of the sources at hand (only their Ruby test, tc_canvas.rb, is):   *)
(* they follow the canvas design: out-of-bounds reads fall back to a       *)
(* space, out-of-bounds writes are dropped, a write that names no          *)
(* attribute uses the current one, a fullwidth glyph takes its cell and a  *)
(* marker cell to its right, and no marker is left without its glyph.      *)
(***************************************************************************)
\* Number of calls a behaviour of SpecCanvas makes.
MaxCalls == 2

\* Whether ch takes two cells; U+3042 stands for the fullwidth code points.
IsFullwidth(ch) == ch = \h3042

\* get_char(x, y)
get_char(x, y) ==
    IF x < 0 \/ x >= width \/ y < 0 \/ y >= height
    THEN \h0020
    ELSE chars[x + y * width]

\* put_char that leaves the attribute of the cell as it was.
put_char_noattr(x, y, ch) ==
    IF x < 0 \/ x >= width \/ y < 0 \/ y >= height
    THEN /\ ret' = 0
         /\ UNCHANGED <<cv, cursor>>
    ELSE LET i == x + y * width
             wide == IsFullwidth(ch) /\ x + 1 < width
             c1 == IF x # 0 /\ chars[i] = CUCUL_MAGIC_FULLWIDTH
                   THEN [chars EXCEPT ![i - 1] = \h0020]
                   ELSE chars
             j == IF wide THEN i + 2 ELSE i + 1
             c2 == IF (j % width) > x /\ j < width * height /\ c1[j] = CUCUL_MAGIC_FULLWIDTH
                   THEN [c1 EXCEPT ![j] = \h0020]
                   ELSE c1
         IN  /\ chars' = IF wide
                         THEN [c2 EXCEPT ![i] = ch, ![i + 1] = CUCUL_MAGIC_FULLWIDTH]
                         ELSE [c2 EXCEPT ![i] = IF IsFullwidth(ch) THEN \h0020 ELSE ch]
             /\ ret' = 0
             /\ UNCHANGED <<width, height, attrs, curattr, cursor>>

\* put_char(x, y, ch): the cell takes the code point and the current
\* attribute; a fullwidth glyph also takes the cell to its right for the
\* marker (in the last column it is written as a space); the other half of a
\* pair that the write breaks becomes a space.
put_char(x, y, ch) ==
    IF x < 0 \/ x >= width \/ y < 0 \/ y >= height
    THEN /\ ret' = 0
         /\ UNCHANGED <<cv, cursor>>
    ELSE LET i == x + y * width
             wide == IsFullwidth(ch) /\ x + 1 < width
             c1 == IF x # 0 /\ chars[i] = CUCUL_MAGIC_FULLWIDTH
                   THEN [chars EXCEPT ![i - 1] = \h0020]
                   ELSE chars
             j == IF wide THEN i + 2 ELSE i + 1
             c2 == IF (j % width) > x /\ j < width * height /\ c1[j] = CUCUL_MAGIC_FULLWIDTH
                   THEN [c1 EXCEPT ![j] = \h0020]
                   ELSE c1
         IN  /\ chars' = IF wide
                         THEN [c2 EXCEPT ![i] = ch, ![i + 1] = CUCUL_MAGIC_FULLWIDTH]
                         ELSE [c2 EXCEPT ![i] = IF IsFullwidth(ch) THEN \h0020 ELSE ch]
             /\ attrs' = IF wide
                         THEN [attrs EXCEPT ![i] = curattr, ![i + 1] = curattr]
                         ELSE [attrs EXCEPT ![i] = curattr]
             /\ ret' = 0
             /\ UNCHANGED <<width, height, curattr, cursor>>

\* gotoxy(x, y): the cursor is not clamped.
gotoxy(x, y) ==
    /\ cursor_x' = x
    /\ cursor_y' = y
    /\ ret' = 0
    /\ UNCHANGED cv

\* set_size that keeps every cell at its index in the buffer instead of at
\* its coordinates.
set_size_sameindex(w, h) ==
    IF w <= 0 \/ h <= 0
    THEN /\ ret' = -1
         /\ UNCHANGED <<cv, cursor>>
    ELSE /\ width' = w
         /\ height' = h
         /\ chars' = [i \in 0 .. (w * h - 1) |->
                         IF i < width * height THEN chars[i] ELSE \h0020]
         /\ attrs' = [i \in 0 .. (w * h - 1) |->
                         IF i < width * height THEN attrs[i] ELSE curattr]
         /\ ret' = 0
         /\ UNCHANGED <<curattr, cursor>>

\* A buffer of the canvas reallocated for w x h cells: cells of the overlap
\* keep their content at the same coordinates, new cells hold fill.
Resized(buf, w, h, fill) ==
    [i \in 0 .. (w * h - 1) |->
        IF i % w < width /\ i \div w < height
        THEN buf[(i % w) + (i \div w) * width]
        ELSE fill]

\* set_size(w, h): both buffers are reallocated, new cells hold a space and
\* the current attribute; non-positive dimensions are an invalid argument.
set_size(w, h) ==
    IF w <= 0 \/ h <= 0
    THEN /\ ret' = -1
         /\ UNCHANGED <<cv, cursor>>
    ELSE /\ width' = w
         /\ height' = h
         /\ chars' = Resized(chars, w, h, \h0020)
         /\ attrs' = Resized(attrs, w, h, curattr)
         /\ ret' = 0
         /\ UNCHANGED <<curattr, cursor>>

\* Code points written: '*' (as in tc_canvas.rb) and a fullwidth glyph.
CharArgs == {\h002a, \h3042}
\* Sizes asked for: invalid ones, the smallest, the current one, and one cell
\* less or more in each direction.
SizeArgs ==
    {<<0, height>>, <<width, -1>>, <<1, 1>>, <<width, height>>,
     <<width + 1, height + 1>>, <<width - 1, height + 1>>, <<width + 1, height - 1>>}

\* The canvases of Init, the cursor at the origin or beyond the last cell.
InitCanvas ==
    /\ width = MaxWidth
    /\ height = MaxHeight
    /\ \E r \in 0 .. (MaxHeight - 1), t \in Rows(MaxWidth) :
           chars = CharsOf(MaxWidth, MaxHeight, r, t)
    /\ \E q \in -1 .. (MaxWidth * MaxHeight - 1) :
           attrs = [i \in 0 .. (MaxWidth * MaxHeight - 1) |->
                       IF q >= 0 /\ i \in UnitOf(MaxWidth, chars, q)
                       THEN StyleOnlyAttr ELSE ColourAttr]
    /\ curattr = FreshAttr
    /\ \E c \in {<<0, 0>>, <<MaxWidth, MaxHeight>>} :
           /\ cursor_x = c[1]
           /\ cursor_y = c[2]
    /\ NoDisplay
    /\ calls = 0
    /\ ret = 0
    /\ last = [op |-> "init"]
    /\ arg = [k |-> "none"]
    /\ NoTunnel

GetChar ==
    \E c \in CoordArgs :
        /\ calls < MaxCalls
        /\ calls' = calls + 1
        /\ ret' = get_char(c[1], c[2])
        /\ last' = [op |-> "get_char", x |-> c[1], y |-> c[2]]
        /\ UNCHANGED <<cv, cursor, kk, arg, tt>>

PutChar ==
    \E c \in CoordArgs, ch \in CharArgs :
        /\ calls < MaxCalls
        /\ calls' = calls + 1
        /\ put_char(c[1], c[2], ch)
        /\ last' = [op |-> "put_char", x |-> c[1], y |-> c[2], ch |-> ch]
        /\ UNCHANGED <<kk, arg, tt>>

Gotoxy ==
    \E c \in {<<1, 1>>, <<width, height>>} :
        /\ calls < MaxCalls
        /\ calls' = calls + 1
        /\ gotoxy(c[1], c[2])
        /\ last' = [op |-> "gotoxy", x |-> c[1], y |-> c[2]]
        /\ UNCHANGED <<kk, arg, tt>>

SetSize ==
    \E c \in SizeArgs :
        /\ calls < MaxCalls
        /\ calls' = calls + 1
        /\ set_size(c[1], c[2])
        /\ last' = [op |-> "set_size", w |-> c[1], h |-> c[2]]
        /\ UNCHANGED <<kk, arg, tt>>

NextCanvas == GetChar \/ PutChar \/ Gotoxy \/ SetSize

SpecCanvas == InitCanvas /\ [][NextCanvas]_vars

(***************************************************************************)
(* The OpenGL display driver (src/caca/driver_gl.c), built with             *)
(* HAVE_GLUTCLOSEFUNC.  The display is the record                           *)
(*     [drv |-> struct driver_private, resize |-> kk->resize,              *)
(*      mouse |-> kk->mouse]                                               *)
(* and each GLUT callback is an operator on it.  GLUT calls the callbacks  *)
(* from glutMainLoopEvent only, which gl_get_event runs before looking at  *)
(* its slots and gl_display after painting; one callback is one step here, *)
(* taken inside the pump of the call that follows or precedes it.          *)
(***************************************************************************)
\* Capacity of the display's event queue.
MaxQueued == 1

\* kk->drv.p->font_width = 9; kk->drv.p->font_height = 15;
FontWidth == 9
FontHeight == 15

Display == [drv |-> drv, resize |-> resize, mouse |-> mouse]

\* The fields gl_init_graphics sets, for a canvas of w x h cells; new_width,
\* new_height, mouse_x and mouse_y are left as malloc returned them (g).
gl_init_graphics(w, h, g) ==
    [font_width |-> FontWidth, font_height |-> FontHeight,
     width |-> w * FontWidth, height |-> h * FontHeight,
     new_width |-> g, new_height |-> g,
     close |-> 0, bit |-> 0,
     mouse_changed |-> 0, mouse_clicked |-> 0,
     mouse_x |-> g, mouse_y |-> g,
     mouse_button |-> 0, mouse_state |-> 0,
     key |-> 0, special_key |-> 0]

\* static void gl_handle_keyboard(unsigned char key, int x, int y)
gl_handle_keyboard(kd, key) == [kd EXCEPT !.drv.key = key]

\* static void gl_handle_special_key(int key, int x, int y)
gl_handle_special_key(kd, key) == [kd EXCEPT !.drv.special_key = key]

\* gl_handle_reshape that treats the first notification like the others.
gl_handle_reshape_nofirst(kd, w, h) ==
    [kd EXCEPT !.drv.new_width = w,
               !.drv.new_height = h,
               !.drv.bit = 1,
               !.resize = [w |-> w \div kd.drv.font_width,
                           h |-> (h \div kd.drv.font_height) + 1,
                           resized |-> 1]]

\* static void gl_handle_reshape(int w, int h)
gl_handle_reshape(kd, w, h) ==
    IF kd.drv.bit # 0
    THEN [kd EXCEPT !.drv.new_width = w,
                    !.drv.new_height = h,
                    !.resize = [w |-> w \div kd.drv.font_width,
                                h |-> (h \div kd.drv.font_height) + 1,
                                resized |-> 1]]
    ELSE [kd EXCEPT !.drv.bit = 1]

\* static void gl_handle_mouse(int button, int state, int x, int y)
gl_handle_mouse(kd, button, state, x, y) ==
    [kd EXCEPT !.drv.mouse_clicked = 1,
               !.drv.mouse_button = button,
               !.drv.mouse_state = state,
               !.drv.mouse_x = x \div kd.drv.font_width,
               !.drv.mouse_y = y \div kd.drv.font_height,
               !.mouse = [x |-> x \div kd.drv.font_width,
                          y |-> y \div kd.drv.font_height],
               !.drv.mouse_changed = 1]

\* gl_handle_mouse_motion that keeps the position of a motion not polled yet.
gl_handle_mouse_motion_first(kd, x, y) ==
    IF kd.drv.mouse_changed # 0
    THEN kd
    ELSE [kd EXCEPT !.drv.mouse_x = x \div kd.drv.font_width,
                    !.drv.mouse_y = y \div kd.drv.font_height,
                    !.mouse = [x |-> x \div kd.drv.font_width,
                               y |-> y \div kd.drv.font_height],
                    !.drv.mouse_changed = 1]

\* static void gl_handle_mouse_motion(int x, int y)
gl_handle_mouse_motion(kd, x, y) ==
    [kd EXCEPT !.drv.mouse_x = x \div kd.drv.font_width,
               !.drv.mouse_y = y \div kd.drv.font_height,
               !.mouse = [x |-> x \div kd.drv.font_width,
                          y |-> y \div kd.drv.font_height],
               !.drv.mouse_changed = 1]

\* static void gl_handle_close(void)
gl_handle_close(kd) == [kd EXCEPT !.drv.close = 1]

\* static void gl_handle_resize(caca_t *kk)
gl_handle_resize(kd) ==
    [kd EXCEPT !.drv.width = kd.drv.new_width,
               !.drv.height = kd.drv.new_height]

\* The switch of gl_get_event: GLUT_KEY_F1 .. GLUT_KEY_F12 (1 .. 12) give
\* CACA_KEY_F1 .. CACA_KEY_F12, GLUT_KEY_LEFT, UP, RIGHT, DOWN (100 .. 103)
\* give CACA_KEY_LEFT, UP, RIGHT, DOWN; 0 stands for the default case.
SpecialKeyCh(k) ==
    IF k >= 1 /\ k <= 12 THEN 281 + k
    ELSE IF k = 100 THEN 275
    ELSE IF k = 101 THEN 273
    ELSE IF k = 102 THEN 276
    ELSE IF k = 103 THEN 274
    ELSE 0

\* gl_get_event that looks at the key slot before the mouse slot.
gl_get_event_keyfirst(kd) ==
    IF kd.drv.close # 0
    THEN [kd |-> [kd EXCEPT !.drv.close = 0], n |-> 1,
          ev |-> [type |-> "QUIT"], pushed |-> <<>>]
    ELSE IF kd.resize.resized # 0
    THEN [kd |-> kd, n |-> 1,
          ev |-> [type |-> "RESIZE", w |-> width, h |-> height], pushed |-> <<>>]
    ELSE IF kd.drv.key # 0
    THEN [kd |-> [kd EXCEPT !.drv.key = 0], n |-> 1,
          ev |-> [type |-> "KEY_PRESS", ch |-> kd.drv.key, ucs4 |-> kd.drv.key,
                  utf8 |-> <<kd.drv.key, 0>>],
          pushed |-> <<>>]
    ELSE IF kd.drv.mouse_changed # 0
    THEN LET motion == [type |-> "MOUSE_MOTION", x |-> kd.mouse.x, y |-> kd.mouse.y]
         IN  IF kd.drv.mouse_clicked # 0
             THEN [kd |-> [kd EXCEPT !.drv.mouse_changed = 0, !.drv.mouse_clicked = 0],
                   n |-> 1,
                   ev |-> [type |-> "MOUSE_PRESS", x |-> kd.mouse.x, y |-> kd.mouse.y,
                           button |-> kd.drv.mouse_button],
                   pushed |-> <<motion>>]
             ELSE [kd |-> [kd EXCEPT !.drv.mouse_changed = 0], n |-> 1,
                   ev |-> motion, pushed |-> <<>>]
    ELSE IF kd.drv.special_key # 0
    THEN IF SpecialKeyCh(kd.drv.special_key) = 0
         THEN [kd |-> kd, n |-> 0, ev |-> [type |-> "NONE"], pushed |-> <<>>]
         ELSE [kd |-> [kd EXCEPT !.drv.special_key = 0], n |-> 1,
               ev |-> [type |-> "KEY_PRESS", ch |-> SpecialKeyCh(kd.drv.special_key),
                       ucs4 |-> 0, utf8 |-> <<0>>],
               pushed |-> <<>>]
    ELSE [kd |-> kd, n |-> 0, ev |-> [type |-> "NONE"], pushed |-> <<>>]

\* The part of gl_get_event after the pump: the display it leaves, its return
\* value n, the event left in *ev and the events given to _push_event.
gl_get_event(kd) ==
    IF kd.drv.close # 0
    THEN [kd |-> [kd EXCEPT !.drv.close = 0], n |-> 1,
          ev |-> [type |-> "QUIT"], pushed |-> <<>>]
    ELSE IF kd.resize.resized # 0
    THEN [kd |-> kd, n |-> 1,
          ev |-> [type |-> "RESIZE", w |-> width, h |-> height], pushed |-> <<>>]
    ELSE IF kd.drv.mouse_changed # 0
    THEN LET motion == [type |-> "MOUSE_MOTION", x |-> kd.mouse.x, y |-> kd.mouse.y]
         IN  IF kd.drv.mouse_clicked # 0
             THEN [kd |-> [kd EXCEPT !.drv.mouse_changed = 0, !.drv.mouse_clicked = 0],
                   n |-> 1,
                   ev |-> [type |-> "MOUSE_PRESS", x |-> kd.mouse.x, y |-> kd.mouse.y,
                           button |-> kd.drv.mouse_button],
                   pushed |-> <<motion>>]
             ELSE [kd |-> [kd EXCEPT !.drv.mouse_changed = 0], n |-> 1,
                   ev |-> motion, pushed |-> <<>>]
    ELSE IF kd.drv.key # 0
    THEN [kd |-> [kd EXCEPT !.drv.key = 0], n |-> 1,
          ev |-> [type |-> "KEY_PRESS", ch |-> kd.drv.key, ucs4 |-> kd.drv.key,
                  utf8 |-> <<kd.drv.key, 0>>],
          pushed |-> <<>>]
    ELSE IF kd.drv.special_key # 0
    THEN IF SpecialKeyCh(kd.drv.special_key) = 0
         THEN [kd |-> kd, n |-> 0, ev |-> [type |-> "NONE"], pushed |-> <<>>]
         ELSE [kd |-> [kd EXCEPT !.drv.special_key = 0], n |-> 1,
               ev |-> [type |-> "KEY_PRESS", ch |-> SpecialKeyCh(kd.drv.special_key),
                       ucs4 |-> 0, utf8 |-> <<0>>],
               pushed |-> <<>>]
    ELSE [kd |-> kd, n |-> 0, ev |-> [type |-> "NONE"], pushed |-> <<>>]

\* _push_event(kk, ev): the event joins the display's queue unless it is full.
push_event(q, evs) == IF evs = <<>> \/ Len(q) >= MaxQueued THEN q ELSE q \o evs

\* Iterations of "for(v = 0; v < limit; v += step)".
Walked(limit, step) == (limit + step - 1) \div step

\* What a read beyond the canvas buffers may yield (sampled).
OutOfBuffer == {[ch |-> \h0020, attr |-> FreshAttr], [ch |-> \h0041, attr |-> U32(\hffff, \hffff)]}

\* The code point and attribute gl_display reads through its pointers at
\* element i of the buffers.
CellReads(i) ==
    IF i < width * height THEN {[ch |-> chars[i], attr |-> attrs[i]]} ELSE OutOfBuffer

\* What gl_display paints for one cell: the background quad, and the glyph quad
\* for a code point in 0x21 .. 0x7f.
PaintsOf(i) ==
    UNION {{[bg |-> b, glyph |-> g] :
               b \in cucul_attr_to_rgb12bg(c.attr),
               g \in IF c.ch > \h20 /\ c.ch < \h80
                     THEN {<<c.ch, f>> : f \in cucul_attr_to_rgb12fg(c.attr)}
                     ELSE {<<>>}} :
           c \in CellReads(i)}

\* The frames gl_display may paint from walked cell k on: cols cells per line,
\* n cells in all, line by line from element line * width of the buffers.
RECURSIVE FramesFrom(_, _, _)
FramesFrom(k, cols, n) ==
    IF k >= n THEN {<<>>}
    ELSE {<<p>> \o f : p \in PaintsOf((k \div cols) * width + (k % cols)),
                       f \in FramesFrom(k + 1, cols, n)}

\* gl_display that blanks the cells it has painted.
gl_display_blank ==
    /\ \E f \in FramesFrom(0, Walked(drv.width, drv.font_width),
                          Walked(drv.width, drv.font_width)
                          * Walked(drv.height, drv.font_height)) :
           ret' = [frame |-> f]
    /\ chars' = [i \in DOMAIN chars |-> \h0020]
    /\ UNCHANGED <<width, height, attrs, curattr>>

\* static void gl_display(caca_t *kk)
gl_display ==
    /\ \E f \in FramesFrom(0, Walked(drv.width, drv.font_width),
                          Walked(drv.width, drv.font_width)
                          * Walked(drv.height, drv.font_height)) :
           ret' = [frame |-> f]
    /\ UNCHANGED cv

\* What the host notifies: the key 'a'; GLUT_KEY_F1 and GLUT_KEY_HOME; the
\* window at its initial size and one cell wider; the left button going down;
\* the pointer at two places.
KeyArgs == {\h61}
SpecialArgs == {\h01, \h6a}
ReshapeArgs ==
    {<<MaxWidth * FontWidth, MaxHeight * FontHeight>>,
     <<(MaxWidth + 1) * FontWidth, MaxHeight * FontHeight>>}
MouseArgs == {<<0, 0, 10, 16>>}
MotionArgs == {<<0, 0>>, <<10, 16>>}
\* What malloc may have left in a field gl_init_graphics does not set (sampled).
Uninitialised == {\h0000, \h0fff}

\* What a call that returns void leaves as its result.
Void == [void |-> TRUE]

SetDisplay(kd) ==
    /\ drv' = kd.drv
    /\ resize' = kd.resize
    /\ mouse' = kd.mouse

\* The display right after gl_init_graphics on a canvas that holds a fullwidth
\* glyph at its origin and a '*' in its last cell: no resize requested, an
\* empty event queue, nothing notified.
InitGL ==
    /\ width = MaxWidth
    /\ height = MaxHeight
    /\ chars = [CharsOf(MaxWidth, MaxHeight, 0,
                        <<\h3042, CUCUL_MAGIC_FULLWIDTH>>
                        \o [i \in 1 .. (MaxWidth - 2) |-> \h0020])
                   EXCEPT ![MaxWidth * MaxHeight - 1] = \h002a]
    /\ attrs = [i \in 0 .. (MaxWidth * MaxHeight - 1) |->
                   IF i = MaxWidth * MaxHeight - 1 THEN FreshAttr ELSE ColourAttr]
    /\ curattr = FreshAttr
    /\ cursor_x = 0
    /\ cursor_y = 0
    /\ \E g \in Uninitialised : drv = gl_init_graphics(MaxWidth, MaxHeight, g)
    /\ resize = [w |-> 0, h |-> 0, resized |-> 0]
    /\ mouse = [x |-> 0, y |-> 0]
    /\ events = <<>>
    /\ hist = [reshapes |-> 0, unhandled |-> 0, handled |-> 0, target |-> <<0, 0>>,
               motion |-> FALSE, button |-> FALSE,
               mmotion |-> FALSE, mbutton |-> FALSE, pos |-> <<0, 0>>,
               overwritten |-> FALSE, closed |-> FALSE, quiet |-> FALSE]
    /\ calls = 0
    /\ ret = Void
    /\ last = [op |-> "init"]
    /\ arg = [k |-> "none"]
    /\ NoTunnel

HostKeyboard ==
    \E key \in KeyArgs :
        /\ SetDisplay(gl_handle_keyboard(Display, key))
        /\ last' = [op |-> "keyboard", key |-> key]
        /\ ret' = Void
        /\ UNCHANGED <<cv, cursor, events, hist, calls, arg, tt>>

HostSpecialKey ==
    \E key \in SpecialArgs :
        /\ SetDisplay(gl_handle_special_key(Display, key))
        /\ last' = [op |-> "special_key", key |-> key]
        /\ ret' = Void
        /\ UNCHANGED <<cv, cursor, events, hist, calls, arg, tt>>

\* The host reports a window of c[1] x c[2] pixels.
Reshaped(c) ==
    /\ SetDisplay(gl_handle_reshape(Display, c[1], c[2]))
    /\ last' = [op |-> "reshape", w |-> c[1], h |-> c[2]]
    /\ hist' = IF hist.reshapes = 0
               THEN [hist EXCEPT !.reshapes = 1]
               ELSE [hist EXCEPT !.reshapes = 2,
                                 !.unhandled = IF @ < 2 THEN @ + 1 ELSE @,
                                 !.target = c]
    /\ ret' = Void
    /\ UNCHANGED <<cv, cursor, events, calls, arg, tt>>

HostReshape == \E c \in ReshapeArgs : Reshaped(c)

HostMouse ==
    \E c \in MouseArgs :
        /\ SetDisplay(gl_handle_mouse(Display, c[1], c[2], c[3], c[4]))
        /\ last' = [op |-> "mouse", button |-> c[1], state |-> c[2], x |-> c[3], y |-> c[4]]
        /\ hist' = [hist EXCEPT !.button = TRUE, !.mbutton = TRUE]
        /\ ret' = Void
        /\ UNCHANGED <<cv, cursor, events, calls, arg, tt>>

HostMouseMotion ==
    \E c \in MotionArgs :
        /\ SetDisplay(gl_handle_mouse_motion(Display, c[1], c[2]))
        /\ last' = [op |-> "mouse_motion", x |-> c[1], y |-> c[2]]
        /\ hist' = [hist EXCEPT !.motion = TRUE, !.mmotion = TRUE, !.pos = c,
                                 !.overwritten = hist.mmotion /\ hist.pos # c]
        /\ ret' = Void
        /\ UNCHANGED <<cv, cursor, events, calls, arg, tt>>

HostClose ==
    /\ SetDisplay(gl_handle_close(Display))
    /\ last' = [op |-> "close"]
    /\ hist' = [hist EXCEPT !.closed = TRUE]
    /\ ret' = Void
    /\ UNCHANGED <<cv, cursor, events, calls, arg, tt>>

\* static int gl_get_event(caca_t *kk, caca_event_t *ev)
GlGetEvent ==
    LET r == gl_get_event(Display)
    IN  /\ SetDisplay(r.kd)
        /\ events' = push_event(events, r.pushed)
        /\ ret' = [n |-> r.n, ev |-> r.ev]
        /\ last' = [op |-> "get_event"]
        /\ hist' = IF r.ev.type \in {"QUIT", "RESIZE"}
                   THEN [hist EXCEPT !.motion = FALSE, !.button = FALSE,
                                     !.closed = @ /\ r.ev.type # "QUIT"]
                   ELSE [hist EXCEPT !.motion = FALSE, !.button = FALSE,
                                     !.mmotion = FALSE, !.mbutton = FALSE]
        /\ UNCHANGED <<cv, cursor, calls, arg, tt>>

GlDisplay ==
    /\ gl_display
    /\ last' = [op |-> "display"]
    /\ UNCHANGED <<cursor, kk, calls, arg, tt>>

\* The display acknowledges a resize request: the driver takes its new pixel
\* size (gl_handle_resize) and the canvas takes the requested size.
HandleResize ==
    /\ resize.resized # 0
    /\ IF resize.w <= 0 \/ resize.h <= 0
       THEN UNCHANGED cv
       ELSE /\ width' = resize.w
            /\ height' = resize.h
            /\ chars' = Resized(chars, resize.w, resize.h, \h0020)
            /\ attrs' = Resized(attrs, resize.w, resize.h, curattr)
            /\ UNCHANGED curattr
    /\ ret' = Void
    /\ drv' = gl_handle_resize(Display).drv
    /\ resize' = [resize EXCEPT !.resized = 0]
    /\ last' = [op |-> "handle_resize"]
    /\ hist' = [hist EXCEPT !.unhandled = 0, !.handled = hist.unhandled]
    /\ UNCHANGED <<cursor, mouse, events, calls, arg, tt>>

\* The display hands out the oldest event of its queue.
PopEvent ==
    /\ events # <<>>
    /\ ret' = [n |-> 1, ev |-> Head(events)]
    /\ events' = Tail(events)
    /\ last' = [op |-> "pop_event"]
    /\ UNCHANGED <<cv, cursor, drv, resize, mouse, hist, calls, arg, tt>>

NextGL ==
    \/ HostKeyboard
    \/ HostSpecialKey
    \/ HostReshape
    \/ HostMouse
    \/ HostMouseMotion
    \/ HostClose
    \/ GlGetEvent
    \/ GlDisplay
    \/ HandleResize
    \/ PopEvent

SpecGL == InitGL /\ [][NextGL]_vars

\* Window sizes of any kind: narrower than a cell, the initial width, one
\* pixel and one cell more; one row less than the initial height, the initial
\* height, one pixel more.
PixelArgs ==
    {<<w, h>> : w \in {FontWidth - 1, MaxWidth * FontWidth,
                       MaxWidth * FontWidth + 1, (MaxWidth + 1) * FontWidth},
                h \in {(MaxHeight - 1) * FontHeight, MaxHeight * FontHeight,
                       MaxHeight * FontHeight + 1}}

HostReshapeAny == \E c \in PixelArgs : Reshaped(c)

\* The user resizes the window at will; the application handles each resize
\* and draws.
NextResize ==
    \/ HostReshapeAny
    \/ HandleResize
    \/ GlDisplay

SpecResize == InitGL /\ [][NextResize]_vars

\* The host stops notifying: from here on glutMainLoopEvent finds nothing to
\* deliver.
HostQuiet ==
    /\ ~hist.quiet
    /\ hist' = [hist EXCEPT !.quiet = TRUE]
    /\ last' = [op |-> "quiet"]
    /\ ret' = Void
    /\ UNCHANGED <<cv, cursor, drv, resize, mouse, events, calls, arg, tt>>

\* The host notifies until it goes quiet, while the application polls and
\* handles resize requests, and goes on doing both for ever.
NextDrain ==
    \/ ~hist.quiet /\ HostKeyboard
    \/ ~hist.quiet /\ HostSpecialKey
    \/ ~hist.quiet /\ HostReshape
    \/ ~hist.quiet /\ HostMouse
    \/ ~hist.quiet /\ HostMouseMotion
    \/ ~hist.quiet /\ HostClose
    \/ HostQuiet
    \/ GlGetEvent
    \/ HandleResize

SpecDrain ==
    /\ InitGL
    /\ [][NextDrain]_vars
    /\ WF_vars(GlGetEvent)
    /\ WF_vars(HandleResize)

(***************************************************************************)
(* The tunnel of ttyvaders (src/src/tunnel.c).  tunnel is the struct       *)
(*     [w |-> target width, h |-> rows, left |-> ..., right |-> ...]       *)
(* with left and right indexed from 0, row 0 being the newest.             *)
(***************************************************************************)
\* Width of the game area, and number of update_tunnel calls the game makes
\* on a tunnel (a wall may drift away from the game area for ever).
MaxGameWidth == 6
MaxUpdates == 2

\* static int const delta[] = { -3, -2, -1, 1, 2, 3 };
delta == <<-3, -2, -1, 1, 2, 3>>

\* The C quotient a / b for b > 0, rounded towards zero.
CDiv(a, b) == IF a >= 0 THEN a \div b ELSE -((-a) \div b)

\* update_tunnel that leaves the new row where the random deltas put it.
update_tunnel_noclamp(g, t, r1, r2) ==
    LET left1 == [k \in 0 .. (t.h - 1) |-> IF k = 0 THEN t.left[0] ELSE t.left[k - 1]]
        right1 == [k \in 0 .. (t.h - 1) |-> IF k = 0 THEN t.right[0] ELSE t.right[k - 1]]
        i0 == delta[r1 + 1]
        j0 == delta[r2 + 1]
        gap == right1[1] - left1[1]
        swap == IF gap < t.w THEN i0 > j0
                ELSE IF gap - 2 > t.w THEN i0 < j0
                ELSE FALSE
        i == IF swap THEN j0 ELSE i0
        j == IF swap THEN i0 ELSE j0
        l0 == IF t.w <= g.w \/ gap < t.w THEN left1[1] + i ELSE -10
        r0 == IF t.w <= g.w \/ gap < t.w THEN right1[1] + j ELSE g.w + 10
    IN  [t EXCEPT !.left = [left1 EXCEPT ![0] = l0],
                  !.right = [right1 EXCEPT ![0] = r0]]

\* void update_tunnel(game *g, tunnel *t), r1 and r2 being what the two calls
\* of caca_rand(0,5) return: the rows slide down by one, the new row 0 is
\* row 1 moved by the deltas, swapped when the tunnel has to widen or to
\* narrow, and put back beside row 1 when it leaves the game area.
update_tunnel(g, t, r1, r2) ==
    LET left1 == [k \in 0 .. (t.h - 1) |-> IF k = 0 THEN t.left[0] ELSE t.left[k - 1]]
        right1 == [k \in 0 .. (t.h - 1) |-> IF k = 0 THEN t.right[0] ELSE t.right[k - 1]]
        i0 == delta[r1 + 1]
        j0 == delta[r2 + 1]
        gap == right1[1] - left1[1]
        swap == IF gap < t.w THEN i0 > j0
                ELSE IF gap - 2 > t.w THEN i0 < j0
                ELSE FALSE
        i == IF swap THEN j0 ELSE i0
        j == IF swap THEN i0 ELSE j0
        l0 == IF t.w <= g.w \/ gap < t.w THEN left1[1] + i ELSE -10
        r0 == IF t.w <= g.w \/ gap < t.w THEN right1[1] + j ELSE g.w + 10
        l1 == IF t.w > g.w
              THEN IF l0 < 0 /\ r0 < g.w - 2 THEN left1[1] + 1 ELSE l0
              ELSE IF l0 < 0 THEN left1[1] + 1 ELSE l0
        r1c == IF t.w > g.w
               THEN IF l1 > 1 /\ r0 > g.w - 1 THEN right1[1] - 1 ELSE r0
               ELSE IF r0 > g.w - 1 THEN right1[1] - 1 ELSE r0
    IN  [t EXCEPT !.left = [left1 EXCEPT ![0] = l1],
                  !.right = [right1 EXCEPT ![0] = r1c]]

\* What malloc may have left in a row create_tunnel does not set (sampled).
UninitialisedRow == {-7, 100}

\* create_tunnel(g, w, h) up to its loop of update_tunnel calls: a tunnel at
\* least as wide as the game gets g->h rows outside the game area and no
\* update; a narrower one gets row 0 centred, the other rows being as malloc
\* returned them (u).
create_tunnel(g, w, h, u) ==
    IF w >= g.w
    THEN [w |-> w, h |-> h,
          left |-> [k \in 0 .. (h - 1) |-> IF k < g.h THEN -10 ELSE u],
          right |-> [k \in 0 .. (h - 1) |-> IF k < g.h THEN g.w + 10 ELSE u]]
    ELSE [w |-> w, h |-> h,
          left |-> [k \in 0 .. (h - 1) |-> IF k = 0 THEN CDiv(g.w - w, 2) ELSE u],
          right |-> [k \in 0 .. (h - 1) |-> IF k = 0 THEN CDiv(g.w + w, 2) ELSE u]]

\* The games and tunnels created: a game area of one or two rows; a tunnel of
\* no width, of width 2, one narrower than the game, as wide, and wider; of
\* as many rows as the game (two at least) or one more.
TunnelArgs ==
    {<<gh, w, h>> : gh \in {1, 2},
                    w \in {0, 2, MaxGameWidth - 1, MaxGameWidth, MaxGameWidth + 1},
                    h \in {2, 3}}

\* create_tunnel has been called and is about to enter its loop; hist.rows
\* counts the rows of the tunnel written so far.
InitTunnel ==
    /\ width = 1
    /\ height = 1
    /\ chars = [i \in {0} |-> \h0020]
    /\ attrs = [i \in {0} |-> FreshAttr]
    /\ curattr = FreshAttr
    /\ cursor_x = 0
    /\ cursor_y = 0
    /\ drv = [p |-> "null"]
    /\ resize = [w |-> 0, h |-> 0, resized |-> 0]
    /\ mouse = [x |-> 0, y |-> 0]
    /\ events = <<>>
    /\ calls = 0
    /\ ret = 0
    /\ last = [op |-> "init"]
    /\ arg = [k |-> "none"]
    /\ \E c \in TunnelArgs, u \in UninitialisedRow :
           /\ c[3] >= c[1]
           /\ game = [w |-> MaxGameWidth, h |-> c[1]]
           /\ tunnel = create_tunnel(game, c[2], c[3], u)
           /\ create_i = IF c[2] >= MaxGameWidth THEN c[1] ELSE 0
           /\ hist = [rows |-> IF c[2] >= MaxGameWidth THEN c[1] ELSE 1]

\* One round of "for(i = 0; i < g->h; i++) update_tunnel(g, t);" in
\* create_tunnel.
CreateStep ==
    /\ create_i < game.h
    /\ \E r1 \in 0 .. 5, r2 \in 0 .. 5 :
           /\ tunnel' = update_tunnel(game, tunnel, r1, r2)
           /\ last' = [op |-> "create_tunnel", r1 |-> r1, r2 |-> r2]
    /\ create_i' = create_i + 1
    /\ hist' = [rows |-> IF hist.rows < tunnel.h THEN hist.rows + 1 ELSE hist.rows]
    /\ UNCHANGED <<cv, cursor, drv, resize, mouse, events, calls, ret, arg, game>>

\* The game calls update_tunnel on the tunnel create_tunnel returned.
UpdateTunnel ==
    /\ create_i = game.h
    /\ calls < MaxUpdates
    /\ calls' = calls + 1
    /\ \E r1 \in 0 .. 5, r2 \in 0 .. 5 :
           /\ tunnel' = update_tunnel(game, tunnel, r1, r2)
           /\ last' = [op |-> "update_tunnel", r1 |-> r1, r2 |-> r2]
    /\ hist' = [rows |-> IF hist.rows < tunnel.h THEN hist.rows + 1 ELSE hist.rows]
    /\ UNCHANGED <<cv, cursor, drv, resize, mouse, events, ret, arg, game, create_i>>

NextTunnel == CreateStep \/ UpdateTunnel

SpecTunnel == InitTunnel /\ [][NextTunnel]_vars

(***************************************************************************)
(* Claims about the canvas operations, checked under Spec.                 *)
(***************************************************************************)
\* (old & 0xfffffff0) | a for a style-only value a, by arithmetic on the low word.
StyleMerge(old, a) == [x |-> 0, h |-> old.h, l |-> (old.l - (old.l % 16)) + a.l]

\* C1: after put_attribute(x,y,a) at in-bounds (x,y) with 0x10 <= a < 2^32,
\* get_attribute(x,y) returns a.
C1_PutThenGet ==
    (/\ last.op = "putattr"
     /\ InBounds(last.x, last.y)
     /\ ~AttrBelow16(last.attr)
     /\ ~AttrAbove32(last.attr))
    => cucul_get_attr(last.x, last.y) = last.attr

\* C2: put_attribute(x,y,a) at in-bounds (x,y) with a < 0x10 leaves the cell
\* holding (old_attr & 0xfffffff0) | a, old_attr being the cell's attribute
\* before the call.
C2_PutStyleMerges ==
    [][\A c \in CoordArgs, a \in AttrArgs :
          (/\ last' = [op |-> "putattr", x |-> c[1], y |-> c[2], attr |-> a]
           /\ InBounds(c[1], c[2])
           /\ AttrBelow16(a))
          => cucul_get_attr(c[1], c[2])' = StyleMerge(cucul_get_attr(c[1], c[2]), a)]_vars

\* C3: put_attribute at out-of-bounds (x,y) with a <= 0xffffffff returns 0 and
\* changes no code point, no attribute and not the current attribute; and
\* get_attribute at out-of-bounds (x,y) returns the current attribute.
C3_OutOfBoundsNoop ==
    [][/\ (/\ last'.op = "putattr"
           /\ ~InBounds(last'.x, last'.y)
           /\ ~AttrAbove32(last'.attr))
          => (ret' = 0 /\ chars' = chars /\ attrs' = attrs /\ curattr' = curattr)
       /\ (last'.op = "get_attr" /\ ~InBounds(last'.x, last'.y))
          => ret' = curattr']_vars

\* An out-of-bounds put returned while some cell still held a style-only
\* attribute, which an in-bounds put would have rewritten.
C3_Witness ==
    /\ last.op = "putattr"
    /\ ~InBounds(last.x, last.y)
    /\ ~AttrAbove32(last.attr)
    /\ ret = 0
    /\ \E i \in DOMAIN attrs : AttrBelow16(attrs[i])

\* C4: whenever cell (x+1,y) holds the fullwidth continuation marker, cells
\* (x,y) and (x+1,y) hold the same attribute, in every state reached by
\* put_attribute and set_default_attribute calls.
C4_FullwidthPairing ==
    \A x \in 0 .. (width - 2), y \in 0 .. (height - 1) :
        chars[(x + 1) + y * width] = CUCUL_MAGIC_FULLWIDTH
        => attrs[x + y * width] = attrs[(x + 1) + y * width]

\* A put aimed at one half of a pair has given both halves a new attribute.
C4_Witness ==
    /\ last.op = "putattr"
    /\ InBounds(last.x, last.y)
    /\ \E x \in 0 .. (width - 2) :
          /\ last.x \in {x, x + 1}
          /\ chars[(x + 1) + last.y * width] = CUCUL_MAGIC_FULLWIDTH
          /\ attrs[x + last.y * width] \notin {StyleOnlyAttr, ColourAttr}
          /\ attrs[(x + 1) + last.y * width] \notin {StyleOnlyAttr, ColourAttr}

\* C5: set_default_attribute(a) makes the current attribute
\* (old_current & 0xfffffff0) | a when a < 0x10 and exactly a when
\* 0x10 <= a <= 0xffffffff, changes no cell, and get_attribute(-1,-1) then
\* returns the new current attribute.
C5_SetDefaultAttribute ==
    [][\A a \in SetAttrArgs :
          (last' = [op |-> "set_attr", attr |-> a] /\ ~AttrAbove32(a))
          => /\ ret' = 0
             /\ curattr' = IF AttrBelow16(a) THEN StyleMerge(curattr, a) ELSE a
             /\ chars' = chars
             /\ attrs' = attrs
             /\ cucul_get_attr(-1, -1)' = curattr']_vars

\* A style-only value was merged onto existing colour bits.
C5_Witness ==
    /\ last.op = "set_attr"
    /\ AttrBelow16(last.attr)
    /\ ret = 0
    /\ curattr.h = \hffff
    /\ curattr.l = \hfff5

AnsiField(i) == \h40 + i
ArgbField(c) ==
    LET c1 == IF c < 256 THEN c + 256 ELSE c
    IN  ((c1 \div 8192) * 2048) + ((c1 \div 2) % 2048)

\* C13: a successful ansi_to_attribute(fg,bg) or argb4_to_attribute(fg,bg)
\* leaves the low 4 bits of the current attribute as they were, replaces all
\* 28 colour bits by the new encoding, and changes no cell's code point or
\* attribute.
C13_ColourSettersKeepStyle ==
    [][(last'.op \in {"set_color_ansi", "set_color_argb"} /\ ret' = 0)
       => /\ curattr'.l % 16 = curattr.l % 16
          /\ curattr'.x = 0
          /\ last'.op = "set_color_ansi"
             => /\ FgField(curattr') = AnsiField(last'.fg)
                /\ BgField(curattr') = AnsiField(last'.bg)
          /\ last'.op = "set_color_argb"
             => /\ FgField(curattr') = ArgbField(last'.fg)
                /\ BgField(curattr') = ArgbField(last'.bg)
          /\ chars' = chars
          /\ attrs' = attrs]_vars

\* A truecolour pair, its background given in the short form below 0x100, was
\* set on a current attribute that carried style flags.
C13_Witness ==
    /\ last.op = "set_color_argb"
    /\ ret = 0
    /\ curattr.l % 16 = 5
    /\ FgField(curattr) = ArgbField(last.fg)
    /\ BgField(curattr) = ArgbField(last.bg)
    /\ last.bg < \h100

(***************************************************************************)
(* Claims about the colourspace conversions, checked under SpecCodec.      *)
(***************************************************************************)
\* What an ANSI index comes back as: palette indices and the two sentinels
\* as themselves, 0x11..0x1f as the transparent sentinel.
AnsiBack(i) == IF i <= \h10 \/ i = \h20 THEN i ELSE \h20

\* C7: ansi_to_attribute(fg,bg) accepts every fg, bg <= 0x20 whatever the style
\* flags were, and attribute_to_ansi_fg / attribute_to_ansi_bg of the resulting
\* current attribute return fg and bg for palette indices and the sentinels
\* 0x10 and 0x20, and 0x20 for the indices 0x11..0x1f.
C7_AnsiRoundTrip ==
    [][/\ (last'.op = "set_color_ansi" /\ last'.fg <= \h20 /\ last'.bg <= \h20)
          => ret' = 0
       /\ (last.op = "set_color_ansi" /\ ret = 0 /\ last'.op = "attr_to_ansi_fg")
          => ret' = AnsiBack(last.fg)
       /\ (last.op = "set_color_ansi" /\ ret = 0 /\ last'.op = "attr_to_ansi_bg")
          => ret' = AnsiBack(last.bg)]_vars

\* ansi_to_attribute(0x09, 0x01) on a canvas with style flags set, then
\* attribute_to_ansi_fg of the current attribute, returned 0x09.
C7_Witness ==
    /\ last.op = "attr_to_ansi_fg"
    /\ arg = [k |-> "ansi", fg |-> 9, bg |-> 1]
    /\ last.attr = curattr
    /\ FgField(curattr) = \h49
    /\ BgField(curattr) = \h41
    /\ curattr.l % 16 = 5
    /\ ret = 9

\* C8: attribute_to_ansi_fg and attribute_to_ansi_bg of any 32-bit attribute
\* return a palette index 0..15, the default sentinel 0x10 or the transparent
\* sentinel 0x20.
C8_AnsiResultRange ==
    last.op \in {"attr_to_ansi_fg", "attr_to_ansi_bg"}
    => ret \in (0 .. 15) \cup {\h10, \h20}

\* The three 4-bit channels the quantizer compares.
Channels(c) == <<(c \div 128) % 16, (c \div 8) % 16, (c * 2) % 16>>

\* Sum of squared channel differences between field value v and palette entry i.
SqDist(v, i) ==
    LET p == Channels(ansitab14[i])
        q == Channels(v)
    IN  (p[1] - q[1]) * (p[1] - q[1]) + (p[2] - q[2]) * (p[2] - q[2])
        + (p[3] - q[3]) * (p[3] - q[3])

\* C9: for a 14-bit field value v >= 0x0fff the quantizer returns the smallest
\* palette index at minimal sum of squared channel differences; for
\* 0x50 < v < 0x0fff other than 0x60 it returns the transparent sentinel.
C9_NearestColour ==
    last.op = "nearest_ansi"
    => /\ last.v >= \h0fff
          => /\ ret \in 0 .. 15
             /\ \A j \in 0 .. 15 :
                   /\ SqDist(last.v, ret) <= SqDist(last.v, j)
                   /\ j < ret => SqDist(last.v, ret) < SqDist(last.v, j)
       /\ (last.v > \h50 /\ last.v < \h0fff /\ last.v # \h60)
          => ret = \h20

\* The quantizer was given a value with two palette entries at the same,
\* minimal distance, and returned the smaller index.
C9_Witness ==
    /\ last.op = "nearest_ansi"
    /\ last.v >= \h0fff
    /\ \E j \in 0 .. 15 :
          /\ ret < j
          /\ SqDist(last.v, j) = SqDist(last.v, ret)
          /\ \A i \in 0 .. 15 : SqDist(last.v, ret) <= SqDist(last.v, i)

\* C10: for every 32-bit attribute, attribute_to_ansi_fg is the quantizer
\* applied to bits 4..17 and attribute_to_ansi_bg the same quantizer applied to
\* bits 18..31; and the foreground nibble of the packed 8-bit conversion is
\* what attribute_to_ansi_fg returns whenever it is a palette index.
C10_SharedQuantizer ==
    /\ last.op = "attr_to_ansi_fg" => ret = nearest_ansi(FgField(last.attr))
    /\ last.op = "attr_to_ansi_bg" => ret = nearest_ansi(BgField(last.attr))
    /\ (last.op = "attr_to_ansi8" /\ nearest_ansi(FgField(last.attr)) \in 0 .. 15)
       => ret % 16 = cucul_attr_to_ansi_fg(last.attr)

\* What the claim gives for a 14-bit field: the low 12 bits of RGB16 palette
\* entry i for 0x40+i, the sentinel colour for 0x50 and 0x60, (v << 1) & 0x0fff
\* for every other value.
Rgb12Claimed(v, sentinel) ==
    IF v >= \h40 /\ v <= \h4f THEN ansitab16[v - \h40] % 4096
    ELSE IF v = \h50 \/ v = \h60 THEN sentinel
    ELSE (v * 2) % 4096

\* C11: attribute_to_rgb12_fg/bg of any 32-bit attribute: a field 0x40+i
\* (i in 0..15) maps to the low 12 bits of RGB16 palette entry i; the sentinel
\* encodings 0x50 and 0x60 map to 0xaaa (foreground) and 0x000 (background);
\* every other field value v maps to (v << 1) & 0x0fff; the result is at most
\* 0xfff.
C11_Rgb12 ==
    /\ last.op = "attr_to_rgb12fg"
       => (ret <= \hfff /\ ret = Rgb12Claimed(FgField(last.attr), \haaa))
    /\ last.op = "attr_to_rgb12bg"
       => (ret <= \hfff /\ ret = Rgb12Claimed(BgField(last.attr), \h000))

\* The three nibbles of a 12-bit colour, most significant first.
RgbNibbles(c) == <<c \div 256, (c \div 16) % 16, c % 16>>

\* C12: attribute_to_argb4 of any 32-bit attribute writes 8 values, each in
\* 0..15, out[0..3] for the background and out[4..7] for the foreground; the
\* R,G,B nibbles out[1..3] are the three nibbles of attribute_to_rgb12_bg(attr)
\* and out[5..7] those of attribute_to_rgb12_fg(attr).  Where the conversions
\* read beyond the palette table, agreeing with one value the RGB conversion
\* may return is enough.
C12_Argb4MatchesRgb12 ==
    last.op = "attr_to_argb4"
    => /\ Len(ret) = 8
       /\ \A i \in 1 .. 8 : ret[i] \in 0 .. 15
       /\ \E c \in cucul_attr_to_rgb12bg(last.attr) :
              <<ret[2], ret[3], ret[4]>> = RgbNibbles(c)
       /\ \E c \in cucul_attr_to_rgb12fg(last.attr) :
              <<ret[6], ret[7], ret[8]>> = RgbNibbles(c)

\* C25: palette lookups stay in range: for every 32-bit attribute, every
\* lookup into the 16-entry RGB16 palette table made by attribute_to_rgb12_fg,
\* attribute_to_rgb12_bg, attribute_to_rgb24_fg/bg and attribute_to_argb4
\* uses an index in 0..15.
C25_PaletteLookupsInRange ==
    /\ last.op \in {"attr_to_rgb12fg", "attr_to_rgb24fg"}
       => Rgb12Lookups(FgField(last.attr), CUCUL_LIGHTGRAY) \subseteq 0 .. 15
    /\ last.op \in {"attr_to_rgb12bg", "attr_to_rgb24bg"}
       => Rgb12Lookups(BgField(last.attr), CUCUL_BLACK) \subseteq 0 .. 15
    /\ last.op = "attr_to_argb4"
       => (Argb16Lookups(BgField(last.attr), CUCUL_BLACK)
           \cup Argb16Lookups(FgField(last.attr), CUCUL_LIGHTGRAY)) \subseteq 0 .. 15

\* C26: truecolour encodings never collide with palette or sentinel
\* encodings: for every ARGB4 input in 0x0000..0xffff, the short forms below
\* 0x100 included, the 14-bit fields stored by argb4_to_attribute are above
\* 0x50 and different from 0x60.
C26_TruecolourApart ==
    (last.op = "set_color_argb" /\ ret = 0)
    => /\ FgField(curattr) > \h50
       /\ FgField(curattr) # \h60
       /\ BgField(curattr) > \h50
       /\ BgField(curattr) # \h60

(***************************************************************************)
(* Claims about character cells and canvas size, checked under SpecCanvas. *)
(***************************************************************************)
\* What put_char(c, ch) followed by get_char(c) does, "stamped" telling whether
\* the written cell takes the current attribute or keeps its own: in bounds
\* and for a non-fullwidth ch, get_char returns ch and the cursor and the size
\* are unchanged; out of bounds nothing changes; get_char out of bounds
\* returns a space.
PutCharThenGet(stamped) ==
    /\ \A c \in CoordArgs, ch \in CharArgs :
          last' = [op |-> "put_char", x |-> c[1], y |-> c[2], ch |-> ch]
          => IF InBounds(c[1], c[2])
             THEN ~IsFullwidth(ch)
                  => /\ get_char(c[1], c[2])' = ch
                     /\ attrs'[c[1] + c[2] * width] =
                            (IF stamped THEN curattr ELSE attrs[c[1] + c[2] * width])
                     /\ cursor' = cursor
                     /\ width' = width
                     /\ height' = height
             ELSE /\ cv' = cv
                  /\ cursor' = cursor
    /\ (/\ last.op = "put_char"
        /\ InBounds(last.x, last.y)
        /\ ~IsFullwidth(last.ch)
        /\ last'.op = "get_char"
        /\ last'.x = last.x
        /\ last'.y = last.y)
       => ret' = last.ch
    /\ (last'.op = "get_char" /\ ~InBounds(last'.x, last'.y))
       => ret' = \h0020

\* C14: for in-bounds (x,y) and a non-fullwidth code point c, put_char(x,y,c)
\* followed by get_char(x,y) returns c, and the call leaves the cell's
\* attribute, the cursor position and the canvas size unchanged; for
\* out-of-bounds (x,y) put_char changes nothing and get_char returns the space
\* character.
C14_PutCharKeepsAttr == [][PutCharThenGet(FALSE)]_vars

\* C14 as amended: the same, except that the call sets the cell's attribute to
\* the current default attribute.
C14_PutCharStampsAttr == [][PutCharThenGet(TRUE)]_vars

\* get_char returned the '*' that put_char had written to a cell, which now
\* holds the current attribute.
C14_Witness ==
    /\ last.op = "get_char"
    /\ InBounds(last.x, last.y)
    /\ ret = \h002a
    /\ attrs[last.x + last.y * width] = curattr

\* C15: set_size(w,h) with positive w,h makes width report w and height
\* report h; every cell inside the overlap of the old and new rectangles
\* keeps its code point and attribute at the same coordinates; every newly
\* exposed cell holds a space with the current default attribute; the cursor
\* position and the current default attribute are unchanged.
C15_SetSize ==
    [][\A c \in SizeArgs :
          (last' = [op |-> "set_size", w |-> c[1], h |-> c[2]] /\ c[1] > 0 /\ c[2] > 0)
          => /\ width' = c[1]
             /\ height' = c[2]
             /\ DOMAIN chars' = 0 .. (c[1] * c[2] - 1)
             /\ DOMAIN attrs' = 0 .. (c[1] * c[2] - 1)
             /\ \A x \in 0 .. (c[1] - 1), y \in 0 .. (c[2] - 1) :
                   IF x < width /\ y < height
                   THEN /\ get_char(x, y)' = get_char(x, y)
                        /\ cucul_get_attr(x, y)' = cucul_get_attr(x, y)
                   ELSE /\ get_char(x, y)' = \h0020
                        /\ cucul_get_attr(x, y)' = curattr
             /\ cursor' = cursor
             /\ curattr' = curattr]_vars

\* A canvas holding a '*' was made one column wider and one row shorter: the
\* '*' is where it was, the new column holds spaces with the current
\* attribute, and the cursor lies below the last row.
C15_Witness ==
    /\ last.op = "set_size"
    /\ ret = 0
    /\ width = MaxWidth + 1
    /\ height = MaxHeight - 1
    /\ chars[MaxWidth - 1] = \h002a
    /\ chars[width - 1] = \h0020
    /\ attrs[width - 1] = curattr
    /\ attrs[0] # curattr
    /\ cursor_y >= height

(***************************************************************************)
(* Claims about the OpenGL display driver, checked under SpecGL.           *)
(***************************************************************************)
\* The single-slot mailboxes of the driver, what each holds and whether it
\* holds a notification.
Slots == {"close", "resize", "mouse", "key", "special"}

SlotContent(kd, s) ==
    CASE s = "close" -> <<kd.drv.close>>
      [] s = "resize" -> <<kd.resize.resized, kd.resize.w, kd.resize.h>>
      [] s = "mouse" -> <<kd.drv.mouse_changed, kd.drv.mouse_clicked,
                          kd.drv.mouse_button, kd.mouse.x, kd.mouse.y>>
      [] s = "key" -> <<kd.drv.key>>
      [] s = "special" -> <<kd.drv.special_key>>

SlotPending(kd, s) ==
    CASE s = "close" -> kd.drv.close # 0
      [] s = "resize" -> kd.resize.resized # 0
      [] s = "mouse" -> kd.drv.mouse_changed # 0 \/ kd.drv.mouse_clicked # 0
      [] s = "key" -> kd.drv.key # 0
      [] s = "special" -> kd.drv.special_key # 0

\* The slot an event comes from; an ordinary key press carries its code point
\* in ucs4, a special key carries none.
SlotOf(ev) ==
    CASE ev.type = "QUIT" -> "close"
      [] ev.type = "RESIZE" -> "resize"
      [] ev.type \in {"MOUSE_MOTION", "MOUSE_PRESS"} -> "mouse"
      [] ev.type = "KEY_PRESS" -> IF ev.ucs4 # 0 THEN "key" ELSE "special"
      [] OTHER -> "none"

EventTypes == {"QUIT", "RESIZE", "MOUSE_MOTION", "MOUSE_PRESS", "KEY_PRESS", "NONE"}

\* C16: every poll_event call returns without waiting and reports at most one
\* event (quit, resize, mouse motion, mouse press, key press, or none); it
\* consumes at most one pending notification: every other slot is afterwards
\* as it was at the call, and a notification left pending is returned by a
\* later call: the call that finds it the only one pending returns it.
C16_PollTakesOne ==
    /\ [](ENABLED GlGetEvent)
    /\ [][last'.op = "get_event"
          => /\ ret'.ev.type \in EventTypes
             /\ (ret'.n = 0) = (ret'.ev.type = "NONE")
             /\ \A s \in Slots \ {SlotOf(ret'.ev)} :
                   SlotContent(Display', s) = SlotContent(Display, s)
             /\ \A s \in Slots :
                   (/\ SlotPending(Display, s)
                    /\ \A t \in Slots \ {s} : ~SlotPending(Display, t))
                   => SlotOf(ret'.ev) = s]_vars

\* C17: poll_event takes and clears: whenever it returns an event (quit,
\* resize, mouse motion/press, key press) the slot that produced it is empty
\* when the call returns, so a second poll_event with no host callback in
\* between never returns an event of that slot again; and a poll that finds a
\* slot occupied never leaves it occupied while reporting no event.
C17_TakeAndClear ==
    [][last'.op = "get_event"
       => /\ ret'.n = 1 => ~SlotPending(Display', SlotOf(ret'.ev))
          /\ (last.op = "get_event" /\ ret.n = 1 /\ ret'.n = 1)
             => SlotOf(ret'.ev) # SlotOf(ret.ev)
          /\ ret'.n = 0
             => \A s \in Slots :
                    ~(SlotPending(Display, s) /\ SlotPending(Display', s))]_vars

\* C18: after init the first reshape notification is suppressed: it leaves the
\* resize-pending flag, the resize target and the recorded new pixel size as
\* they were; every later one sets resize-pending and records its own width
\* and height (and the cell target the driver derives from them); when the
\* resize is handled the most recent notification is the one that counts.
C18_FirstReshapeSuppressed ==
    [][/\ \A c \in ReshapeArgs :
             last' = [op |-> "reshape", w |-> c[1], h |-> c[2]]
             => IF hist.reshapes = 0
                THEN /\ resize' = resize
                     /\ drv'.new_width = drv.new_width
                     /\ drv'.new_height = drv.new_height
                ELSE /\ resize'.resized = 1
                     /\ drv'.new_width = c[1]
                     /\ drv'.new_height = c[2]
                     /\ resize'.w = c[1] \div FontWidth
                     /\ resize'.h = (c[2] \div FontHeight) + 1
       /\ last'.op = "handle_resize"
             => /\ <<drv'.width, drv'.height>> = hist.target
                /\ width' = hist.target[1] \div FontWidth
                /\ height' = (hist.target[2] \div FontHeight) + 1]_vars

\* Two reshape notifications arrived after the first, suppressed one and
\* before the resize was handled; the wider window of the last one was taken.
C18_Witness ==
    /\ last.op = "handle_resize"
    /\ hist.reshapes = 2
    /\ hist.handled = 2
    /\ hist.target = <<(MaxWidth + 1) * FontWidth, MaxHeight * FontHeight>>
    /\ drv.width = (MaxWidth + 1) * FontWidth
    /\ resize.w = MaxWidth + 1
    /\ width = MaxWidth + 1

\* What a poll does with mouse motion.  A poll reaches the mouse slot when it
\* returns neither QUIT nor RESIZE.  "Since" is the interval the notifications
\* are counted in: since the last poll that reached the mouse slot
\* (sinceReached), or since the last poll of any outcome.
LatestMotionWins(sinceReached) ==
    LET motions == IF sinceReached THEN hist.mmotion ELSE hist.motion
        buttons == IF sinceReached THEN hist.mbutton ELSE hist.button
    IN  last'.op = "get_event"
        => /\ (motions /\ ~buttons /\ ret'.ev.type \notin {"QUIT", "RESIZE"})
              => /\ ret'.n = 1
                 /\ ret'.ev = [type |-> "MOUSE_MOTION",
                               x |-> hist.pos[1] \div FontWidth,
                               y |-> hist.pos[2] \div FontHeight]
                 /\ events' = events
           /\ (last.op = "get_event" /\ ret.ev.type = "MOUSE_MOTION")
              => ret'.ev.type \notin {"MOUSE_MOTION", "MOUSE_PRESS"}

\* C19: latest motion wins: if one or more mouse-motion notifications (and no
\* button notification) arrive between two poll_event calls, the next
\* poll_event that reaches the mouse slot returns exactly one MOUSE_MOTION
\* event carrying the cell position of the last notification, and the poll
\* after it returns no mouse event unless a new notification has arrived.
C19_LatestMotionWins == [][LatestMotionWins(FALSE)]_vars

\* C19 as amended: the same for motion notifications, and no button
\* notification, that arrived since the last poll_event that reached the
\* mouse slot.
C19_LatestMotionSinceReached == [][LatestMotionWins(TRUE)]_vars

\* The pointer was reported at pixel (0,0) and then at (10,16) before a poll
\* reached the mouse slot; the poll returned a motion to cell (1,1).
C19_Witness ==
    /\ last.op = "get_event"
    /\ ret.ev = [type |-> "MOUSE_MOTION", x |-> 1, y |-> 1]
    /\ hist.overwritten
    /\ hist.pos = <<10, 16>>
    /\ ~hist.mmotion
    /\ drv.mouse_changed = 0

\* C20: draw paints one frame without mutating the canvas: in every reachable
\* driver and canvas state, after draw returns the canvas width, height, every
\* cell's code point and attribute, and the current default attribute are
\* what they were before the call.
C20_DrawKeepsCanvas ==
    [][last'.op = "display"
       => /\ width' = width
          /\ height' = height
          /\ chars' = chars
          /\ attrs' = attrs
          /\ curattr' = curattr]_vars

\* A frame was painted after a resize to a wider canvas had been handled: one
\* quad per cell of the window, the '*' glyph among them, the canvas still
\* holding the '*'.
C20_Witness ==
    /\ last.op = "display"
    /\ width = MaxWidth + 1
    /\ drv.width = (MaxWidth + 1) * FontWidth
    /\ Len(ret.frame) = (MaxWidth + 1) * MaxHeight
    /\ \E i \in DOMAIN ret.frame :
           /\ ret.frame[i].glyph # <<>>
           /\ ret.frame[i].glyph[1] = \h002a
    /\ \E i \in DOMAIN chars : chars[i] = \h002a

\* The slots in the order gl_get_event is claimed to look at them.
SlotOrder == <<"close", "resize", "mouse", "key", "special">>

\* The first pending slot of kd in that order.
FirstPending(kd) ==
    SlotOrder[CHOOSE i \in 1 .. 5 :
                 /\ SlotPending(kd, SlotOrder[i])
                 /\ \A j \in 1 .. (i - 1) : ~SlotPending(kd, SlotOrder[j])]

C23_DrawInsideCanvas ==
    LET cols == Walked(drv.width, drv.font_width)
        rows == Walked(drv.height, drv.font_height)
    IN  /\ cols <= width
        /\ rows <= height
        /\ \A k \in 0 .. (cols * rows - 1) :
               (k \div cols) * width + (k % cols) < width * height

\* C24: the resize target is a fixed point at the current size: a reshape
\* notification other than the first that reports exactly the window's
\* current pixel size, as computed at init from the canvas (width x 9 by
\* height x 15), requests a target equal to the canvas's current width and
\* height, so handling it does not change the canvas dimensions.
C24_SameSizeKeepsCanvas ==
    [][/\ (/\ last'.op = "reshape"
           /\ hist.reshapes # 0
           /\ <<drv.width, drv.height>> = <<width * FontWidth, height * FontHeight>>
           /\ <<last'.w, last'.h>> = <<drv.width, drv.height>>)
          => /\ resize'.resized = 1
             /\ <<resize'.w, resize'.h>> = <<width, height>>
       /\ (/\ last'.op = "handle_resize"
           /\ <<drv.width, drv.height>> = <<width * FontWidth, height * FontHeight>>
           /\ hist.target = <<drv.width, drv.height>>)
          => <<width', height'>> = <<width, height>>]_vars

(***************************************************************************)
(* Claims about the application's poll loop, checked under SpecDrain.      *)
(***************************************************************************)
\* C22: the mailbox drains: once no further host callback fires and the
\* application keeps calling poll_event, interleaved with handle_resize, a
\* poll_event eventually returns NONE with the close flag, the resize-pending
\* flag, the mouse flags, the key slot and the special-key slot all clear.
C22_MailboxDrains ==
    hist.quiet ~> (/\ last.op = "get_event"
                   /\ ret.ev.type = "NONE"
                   /\ \A s \in Slots : ~SlotPending(Display, s))

(***************************************************************************)
(* Claims about the tunnel, checked under SpecTunnel.                      *)
(***************************************************************************)
\* C27: tunnel walls stay on screen: for a tunnel created with target width
\* w < g.w and height h >= 2, h >= g.h, after create_tunnel and after any
\* number of update_tunnel calls with any random deltas the newest row has
\* 0 <= left[0] and right[0] <= g.w - 1, every row generated so far keeps
\* those bounds, and each update shifts every older row down by exactly one
\* position.
C27_TunnelOnScreen ==
    /\ []((tunnel.w < game.w /\ create_i = game.h)
           => \A k \in 0 .. (hist.rows - 1) :
                  /\ 0 <= tunnel.left[k]
                  /\ tunnel.right[k] <= game.w - 1)
    /\ [][(tunnel.w < game.w /\ last'.op \in {"create_tunnel", "update_tunnel"})
          => \A k \in 0 .. (tunnel.h - 2) :
                 /\ tunnel'.left[k + 1] = tunnel.left[k]
                 /\ tunnel'.right[k + 1] = tunnel.right[k]]_vars

\* An update drew the largest move to the left for a wall already at the
\* edge of the game area: the new row was put one to the right of the row
\* above it, every row of the tunnel having been generated.
C27_Witness ==
    /\ last.op = "update_tunnel"
    /\ tunnel.w < game.w
    /\ tunnel.h = 3
    /\ hist.rows = 3
    /\ last.r1 = 0
    /\ tunnel.left[1] = 0
    /\ tunnel.left[0] = 1
    /\ tunnel.left[2] > 0

====
